---- MODULE Spec2Model ----
(***************************************************************************)
(* Model of mkdocs/replace-invalid-mkdocs-links.py: the link rewriter that *)
(* walks docs/<subdir>/*.md and turns links to locally absent .md files    *)
(* into Wikidata URLs.                                                     *)
(*                                                                         *)
(* Text is a sequence of tokens.  A token is one character of the text,    *)
(* except that the character groups the code looks for as a whole are one  *)
(* token each: ".md", "://", ".tmp" and the fixed pieces of the URLs.  A   *)
(* file name is a sequence of tokens too (<<"q", ".md">> is q.md), and a   *)
(* path below docs/ is a sequence of names.  File texts are the decoded    *)
(* text as the line iterator of the code yields it ("\n" line ends).       *)
(***************************************************************************)
EXTENDS Integers, Sequences, FiniteSets, TLC

\* ------------------------------------------------------------------------
\* Bounds of the model
\* ------------------------------------------------------------------------
MaxItems == 3

MaxRuns == 2

\* ------------------------------------------------------------------------
\* Strings
\* ------------------------------------------------------------------------
Min(S) == CHOOSE x \in S : \A y \in S : x <= y

IsPrefixAt(s, i, p) ==
    /\ i + Len(p) - 1 <= Len(s)
    /\ \A k \in 1..Len(p) : s[i + k - 1] = p[k]

\* p occurs in s
Contains(s, p) == \E i \in 1..(Len(s) + 1) : IsPrefixAt(s, i, p)

RECURSIVE ReplaceFrom(_, _, _, _)
ReplaceFrom(s, i, old, new) ==
    IF i > Len(s) THEN <<>>
    ELSE IF IsPrefixAt(s, i, old)
         THEN new \o ReplaceFrom(s, i + Len(old), old, new)
         ELSE <<s[i]>> \o ReplaceFrom(s, i + 1, old, new)

\* str.replace(old, new): every non-overlapping occurrence, leftmost first
StrReplace(s, old, new) == ReplaceFrom(s, 1, old, new)

RECURSIVE Concat(_)
Concat(ss) == IF ss = <<>> THEN <<>> ELSE Head(ss) \o Concat(Tail(ss))

\* the lines of a text as iteration over the file yields them: each line
\* keeps its "\n", the last line may have none
RECURSIVE SplitLines(_)
SplitLines(s) ==
    IF s = <<>> THEN <<>>
    ELSE LET nl == {i \in 1..Len(s) : s[i] = "\n"}
         IN  IF nl = {} THEN <<s>>
             ELSE <<SubSeq(s, 1, Min(nl))>> \o SplitLines(SubSeq(s, Min(nl) + 1, Len(s)))

\* ------------------------------------------------------------------------
\* The fixed texts of the code
\* ------------------------------------------------------------------------
BangLink == <<"[", "!", "]", "(", "!", ".md", ")">>

BangText == <<"!">>

MdSuffix == <<".md">>

TmpSuffix == <<".tmp">>

WikiUrl == <<"https", "://", "www.wikidata.org/wiki/">>

PropertyUrl == WikiUrl \o <<"Property:">>

\* str.startswith('P') on a token sequence: the first character is P
StartsWithP(s) == Len(s) > 0 /\ s[1] \in {"P", "Property:"}

\* '://' in s
HasScheme(s) == \E i \in 1..Len(s) : s[i] = "://"

\* f.endswith('.md')
EndsWithMd(f) == Len(f) > 0 /\ f[Len(f)] = ".md"

\* ------------------------------------------------------------------------
\* md_link_regex = \[(.*?)\]\((.*?)\.md\)
\* ------------------------------------------------------------------------
\* '.' matches every character but the line end
DotRun(s, a, b) == \A x \in a..b : s[x] # "\n"

\* ".md)" at k
MdCloseAt(s, k) == k + 1 <= Len(s) /\ s[k] = ".md" /\ s[k + 1] = ")"

\* "](" at j
MidAt(s, j) == j + 1 <= Len(s) /\ s[j] = "]" /\ s[j + 1] = "("

\* the positions k of the ".md)" that can end a match whose "](" is at j
StemEnds(s, j) == {k \in (j + 2)..Len(s) : MdCloseAt(s, k) /\ DotRun(s, j + 2, k - 1)}

\* the positions j of the "](" of a match that starts with "[" at i
LabelEnds(s, i) ==
    {j \in (i + 1)..Len(s) : MidAt(s, j) /\ DotRun(s, i + 1, j - 1) /\ StemEnds(s, j) # {}}

\* the positions at or after pos where a match starts
MatchStarts(s, pos) == {i \in pos..Len(s) : s[i] = "[" /\ LabelEnds(s, i) # {}}

\* the leftmost match at or after pos, both groups non-greedy
FirstMatch(s, pos) ==
    LET i == Min(MatchStarts(s, pos))
        j == Min(LabelEnds(s, i))
        k == Min(StemEnds(s, j))
    IN  [start |-> i,
         link_text |-> SubSeq(s, i + 1, j - 1),
         file_base |-> SubSeq(s, j + 2, k - 1),
         full_match |-> SubSeq(s, i, k + 1),
         end |-> k + 2]

\* ------------------------------------------------------------------------
\* The rewriting of one line (the body of the loop over the lines)
\* ------------------------------------------------------------------------
\* Rewritten without the test for '://': an external link is looked up too
Rewritten_SchemeIgnored(m, md_files) ==
    IF (m.file_base \o MdSuffix) \in md_files
    THEN [text |-> m.full_match, n |-> 0]
    ELSE LET wikidata_url ==
                 IF StartsWithP(m.file_base)
                 THEN PropertyUrl \o m.file_base
                 ELSE WikiUrl \o m.file_base
         IN  [text |-> <<"[">> \o m.link_text \o <<"]", "(">> \o wikidata_url \o <<")">>,
              n |-> 1]

\* the text that replaces a match, with the number of changes it counts
Rewritten(m, md_files) ==
    IF HasScheme(m.file_base)
    THEN [text |-> m.full_match, n |-> 0]
    ELSE IF (m.file_base \o MdSuffix) \in md_files
         THEN [text |-> m.full_match, n |-> 0]
         ELSE LET wikidata_url ==
                      IF StartsWithP(m.file_base)
                      THEN PropertyUrl \o m.file_base
                      ELSE WikiUrl \o m.file_base
              IN  [text |-> <<"[">> \o m.link_text \o <<"]", "(">> \o wikidata_url \o <<")">>,
                   n |-> 1]

RECURSIVE RewriteFrom(_, _, _)
RewriteFrom(s, last_end, md_files) ==
    IF MatchStarts(s, last_end) = {}
    THEN [text |-> SubSeq(s, last_end, Len(s)), n |-> 0]
    ELSE LET m == FirstMatch(s, last_end)
             r == Rewritten(m, md_files)
             rest == RewriteFrom(s, m.end, md_files)
         IN  [text |-> SubSeq(s, last_end, m.start - 1) \o r.text \o rest.text,
              n |-> r.n + rest.n]

\* SpecialReplace without the count: the replacement is made and not counted
SpecialReplace_Uncounted(line) ==
    [text |-> StrReplace(line, BangLink, BangText), n |-> 0]

\* the special replacement before the regex, counted once per line it alters
SpecialReplace(line) ==
    LET new_line == StrReplace(line, BangLink, BangText)
    IN  [text |-> new_line, n |-> IF new_line # line THEN 1 ELSE 0]

ProcessLine(line, md_files) ==
    LET sp == SpecialReplace(line)
        rw == RewriteFrom(sp.text, 1, md_files)
    IN  [text |-> rw.text, n |-> sp.n + rw.n]

\* the whole loop over the lines of a file: the text written and the changes
RECURSIVE ProcessLines(_, _)
ProcessLines(lines, md_files) ==
    IF lines = <<>> THEN [text |-> <<>>, n |-> 0]
    ELSE LET h == ProcessLine(Head(lines), md_files)
             t == ProcessLines(Tail(lines), md_files)
         IN  [text |-> h.text \o t.text, n |-> h.n + t.n]

ProcessText(text, md_files) == ProcessLines(SplitLines(text), md_files)

\* ------------------------------------------------------------------------
\* Names, paths and their order
\* ------------------------------------------------------------------------
\* the code point that decides the place of a token in sorted()
Code(t) ==
    CASE t = "!" -> 33
      [] t = ".md" -> 46
      [] t = ".tmp" -> 47
      [] t = "P" -> 80
      [] t = "a" -> 97
      [] t = "b" -> 98
      [] t = "q" -> 113
      [] t = "s" -> 115
      [] t = "z" -> 122
      [] OTHER -> 127

\* x < y for two names, as strings compare
RECURSIVE NameLess(_, _)
NameLess(x, y) ==
    IF y = <<>> THEN FALSE
    ELSE IF x = <<>> THEN TRUE
    ELSE IF Code(Head(x)) # Code(Head(y)) THEN Code(Head(x)) < Code(Head(y))
    ELSE NameLess(Tail(x), Tail(y))

\* sorted(S) for a set of names
RECURSIVE Sorted(_)
Sorted(S) ==
    IF S = {} THEN <<>>
    ELSE LET m == CHOOSE x \in S : \A y \in S \ {x} : NameLess(x, y)
         IN  <<m>> \o Sorted(S \ {m})

\* ------------------------------------------------------------------------
\* The state: the tree below docs/ and the position of a run in main
\* ------------------------------------------------------------------------
VARIABLES
    rootExists,      \* the folder docs exists
    dirs,            \* the directories below docs/, as paths
    files,           \* path of a regular file |-> [ino, data]
    nextIno,         \* the inode the next created file gets
    pc,              \* "main", "subdir", "file", "lines", "finish", "done", "crashed"
    subdirs,         \* main: the sorted subdirectories still to process
    md_files,        \* process_subdirectory: the .md names of the subdirectory
    todo,            \* process_subdirectory: the sorted names still to process
    filename,        \* the file being processed
    changes,         \* its change counter
    files_processed,
    files_changed,
    links_changed,
    stdout,          \* what the run printed
    err,             \* the uncaught exception that ended the run, or "none"
    run,             \* the number of the run
    orig,            \* history: files when the first run started
    runStart,        \* history: files when the current run started
    opened           \* history: the paths a run opened or replaced

vars == <<rootExists, dirs, files, nextIno, pc, subdirs, md_files, todo, filename,
          changes, files_processed, files_changed, links_changed, stdout, err, run,
          orig, runStart, opened>>

tree == <<rootExists, dirs>>

counters == <<files_processed, files_changed, links_changed>>

history == <<orig, runStart>>

\* os.listdir(d): the names of the entries directly in d
ListDir(d) ==
    {e[Len(d) + 1] : e \in {x \in (DOMAIN files) \cup dirs :
                              Len(x) = Len(d) + 1 /\ SubSeq(x, 1, Len(d)) = d}}

\* os.path.join(subdir_path, filename)
FilePath == Append(Head(subdirs), filename)

\* TempName without the suffix: the changes are written over the file itself
TempName_InPlace(name) == name

\* the name of the temporary file of a file: the '.tmp' is appended
TempName(name) == name \o TmpSuffix

\* temp_file_path = file_path + '.tmp'
TempPath == Append(Head(subdirs), TempName(filename))

\* open(path, 'w'): an existing file is truncated, a missing one is created
OpenForWriting(fs, path, ino) ==
    IF path \in DOMAIN fs
    THEN [fs EXCEPT ![path].data = <<>>]
    ELSE (path :> [ino |-> ino, data |-> <<>>]) @@ fs

\* os.remove(path)
Remove(fs, path) == [x \in (DOMAIN fs) \ {path} |-> fs[x]]

\* os.replace(src, dst): dst becomes the file src was, src is gone
Replace(fs, src, dst) ==
    [x \in ((DOMAIN fs) \ {src}) \cup {dst} |-> IF x = dst THEN fs[src] ELSE fs[x]]

\* ------------------------------------------------------------------------
\* main
\* ------------------------------------------------------------------------
\* subdirs = [...os.listdir(base_dir) if os.path.isdir(...)], and the check of it
ListRoot ==
    /\ pc = "main"
    /\ IF ~rootExists
       THEN /\ pc' = "crashed"
            /\ err' = "FileNotFoundError"
            /\ UNCHANGED <<subdirs, stdout>>
       ELSE LET found == {d \in dirs : Len(d) = 1}
            IN  IF found = {}
                THEN /\ stdout' = Append(stdout, [msg |-> "No subdirectories found in 'docs/'."])
                     /\ pc' = "done"
                     /\ UNCHANGED <<subdirs, err>>
                ELSE /\ subdirs' = [i \in 1..Cardinality(found) |->
                                      <<Sorted({d[1] : d \in found})[i]>>]
                     /\ pc' = "subdir"
                     /\ UNCHANGED <<stdout, err>>
    /\ UNCHANGED <<tree, files, nextIno, md_files, todo, filename, changes, counters,
                   run, history, opened>>

\* EnterSubdir with one set of names for the whole tree: md_files holds the
\* .md names found anywhere below docs/, the files processed are the local ones
EnterSubdir_AllNames ==
    /\ pc = "subdir"
    /\ IF subdirs = <<>>
       THEN /\ stdout' = stdout \o <<[msg |-> "All subdirectories processed."],
                                     [msg |-> "Ready."]>>
            /\ pc' = "done"
            /\ UNCHANGED <<md_files, todo, counters>>
       ELSE /\ md_files' = {e[Len(e)] : e \in {x \in DOMAIN files : EndsWithMd(x[Len(x)])}}
            /\ todo' = Sorted({f \in ListDir(Head(subdirs)) : EndsWithMd(f)})
            /\ files_processed' = 0
            /\ files_changed' = 0
            /\ links_changed' = 0
            /\ pc' = "file"
            /\ UNCHANGED stdout
    /\ UNCHANGED <<tree, files, nextIno, subdirs, filename, changes, err, run, history,
                   opened>>

\* for subdir_path in sorted(subdirs): the start of process_subdirectory,
\* and the end of main after the last one
EnterSubdir ==
    /\ pc = "subdir"
    /\ IF subdirs = <<>>
       THEN /\ stdout' = stdout \o <<[msg |-> "All subdirectories processed."],
                                     [msg |-> "Ready."]>>
            /\ pc' = "done"
            /\ UNCHANGED <<md_files, todo, counters>>
       ELSE LET found == {f \in ListDir(Head(subdirs)) : EndsWithMd(f)}
            IN  /\ md_files' = found
                /\ todo' = Sorted(found)
                /\ files_processed' = 0
                /\ files_changed' = 0
                /\ links_changed' = 0
                /\ pc' = "file"
                /\ UNCHANGED stdout
    /\ UNCHANGED <<tree, files, nextIno, subdirs, filename, changes, err, run, history,
                   opened>>

\* ------------------------------------------------------------------------
\* process_subdirectory
\* ------------------------------------------------------------------------
\* the head of the loop over the files: both files are opened
OpenFile ==
    /\ pc = "file"
    /\ todo # <<>>
    /\ LET name == Head(todo)
           file_path == Append(Head(subdirs), name)
           temp_file_path == Append(Head(subdirs), TempName(name))
       IN  /\ filename' = name
           /\ todo' = Tail(todo)
           /\ files_processed' = files_processed + 1
           /\ changes' = 0
           /\ opened' = opened \cup {file_path, temp_file_path}
           /\ files' = OpenForWriting(files, temp_file_path, nextIno)
           /\ nextIno' = IF temp_file_path \in DOMAIN files THEN nextIno ELSE nextIno + 1
           /\ pc' = "lines"
    /\ UNCHANGED <<tree, subdirs, md_files, files_changed, links_changed, stdout, err,
                   run, history>>

\* the loop over the lines: the rewritten lines go to the temporary file
CopyLines ==
    /\ pc = "lines"
    /\ LET r == ProcessText(files[FilePath].data, md_files)
       IN  /\ files' = [files EXCEPT ![TempPath].data = r.text]
           /\ changes' = r.n
    /\ pc' = "finish"
    /\ UNCHANGED <<tree, nextIno, subdirs, md_files, todo, filename, counters, stdout,
                   err, run, history, opened>>

\* if changes > 0: os.replace(...) else: os.remove(...)
Finish ==
    /\ pc = "finish"
    /\ IF changes > 0
       THEN /\ files' = Replace(files, TempPath, FilePath)
            /\ files_changed' = files_changed + 1
            /\ links_changed' = links_changed + changes
            /\ stdout' = Append(stdout, [msg |-> "Modified", file |-> FilePath,
                                         items |-> changes])
       ELSE /\ files' = Remove(files, TempPath)
            /\ UNCHANGED <<files_changed, links_changed, stdout>>
    /\ pc' = "file"
    /\ UNCHANGED <<tree, nextIno, subdirs, md_files, todo, filename, changes,
                   files_processed, err, run, history, opened>>

\* after the last file: the summary of the subdirectory, back to main
SubdirSummary ==
    /\ pc = "file"
    /\ todo = <<>>
    /\ stdout' = Append(stdout, [msg |-> "Summary", subdir |-> Head(subdirs),
                                 processed |-> files_processed,
                                 changed |-> files_changed,
                                 modified |-> links_changed])
    /\ subdirs' = Tail(subdirs)
    /\ pc' = "subdir"
    /\ UNCHANGED <<tree, files, nextIno, md_files, todo, filename, changes, counters,
                   err, run, history, opened>>

\* ------------------------------------------------------------------------
\* I/O errors: nothing catches them, the run ends where it is
\* ------------------------------------------------------------------------
\* open() of the file or of the temporary file raises
OpenFails ==
    /\ pc = "file"
    /\ todo # <<>>
    /\ filename' = Head(todo)
    /\ todo' = Tail(todo)
    /\ files_processed' = files_processed + 1
    /\ pc' = "crashed"
    /\ err' = "OSError"
    /\ UNCHANGED <<tree, files, nextIno, subdirs, md_files, changes, files_changed,
                   links_changed, stdout, run, history, opened>>

\* a read or a write raises inside the loop: the with statement closes the
\* temporary file with the lines written so far
CopyFails ==
    /\ pc = "lines"
    /\ LET lines == SplitLines(files[FilePath].data)
       IN  \E k \in 0..Len(lines) :
               LET r == ProcessLines(SubSeq(lines, 1, k), md_files)
               IN  /\ files' = [files EXCEPT ![TempPath].data = r.text]
                   /\ changes' = r.n
    /\ pc' = "crashed"
    /\ err' = "OSError"
    /\ UNCHANGED <<tree, nextIno, subdirs, md_files, todo, filename, counters, stdout,
                   run, history, opened>>

\* os.replace or os.remove raises
FinishFails ==
    /\ pc = "finish"
    /\ pc' = "crashed"
    /\ err' = "OSError"
    /\ UNCHANGED <<tree, files, nextIno, subdirs, md_files, todo, filename, changes,
                   counters, stdout, run, history, opened>>

\* ------------------------------------------------------------------------
\* The operator runs the tool again on the tree a completed run left
\* ------------------------------------------------------------------------
Rerun ==
    /\ pc = "done"
    /\ run < MaxRuns
    /\ run' = run + 1
    /\ runStart' = files
    /\ stdout' = <<>>
    /\ pc' = "main"
    /\ UNCHANGED <<tree, files, nextIno, subdirs, md_files, todo, filename, changes,
                   counters, err, orig, opened>>

Next ==
    \/ ListRoot
    \/ EnterSubdir
    \/ OpenFile
    \/ CopyLines
    \/ Finish
    \/ SubdirSummary
    \/ OpenFails
    \/ CopyFails
    \/ FinishFails
    \/ Rerun

\* ------------------------------------------------------------------------
\* The trees a run starts on
\* ------------------------------------------------------------------------
DirA == <<"a">>

DirB == <<"b">>

DirS == <<"s">>

QMd == <<"q", ".md">>

PMd == <<"P", ".md">>

BangMd == <<"!", ".md">>

ZMd == <<"z", ".md">>

\* file texts of the trees: no link; a link to P.md; three lines with a link
\* to q.md, a link to P.md and the special link
TextPlain == <<"q">>

TextLinkP == <<"[", "q", "]", "(", "P", ".md", ")">>

TextLines ==
    <<"[", "q", "]", "(", "q", ".md", ")", "\n">>
    \o <<"[", "q", "]", "(", "P", ".md", ")", "\n">>
    \o BangLink

NoFiles == [x \in {} |-> 0]

\* the file at path with this text, or no file
Entry(path, ino, data) ==
    IF data = "absent" THEN NoFiles ELSE path :> [ino |-> ino, data |-> data]

Start ==
    /\ nextIno = 20
    /\ pc = "main"
    /\ subdirs = <<>>
    /\ md_files = {}
    /\ todo = <<>>
    /\ filename = <<>>
    /\ changes = 0
    /\ files_processed = 0
    /\ files_changed = 0
    /\ links_changed = 0
    /\ stdout = <<>>
    /\ err = "none"
    /\ run = 1
    /\ orig = files
    /\ runStart = files
    /\ opened = {}

\* docs is missing, or holds any of the subdirectories a and b, with files
\* in docs itself, in a, in b and in the nested directory a/s
Init ==
    /\ rootExists \in BOOLEAN
    /\ \E top \in SUBSET {DirA, DirB} :
       \E rootP \in {"absent", TextLinkP} :
       \E aP \in {"absent", TextPlain, TextLinkP} :
       \E aQ \in {"absent", TextLinkP, TextLines} :
       \E aTmp \in {"absent", TextPlain} :
       \E aSP \in {"absent", TextLinkP} :
       \E bP \in {"absent", TextLines} :
       \E bQ \in {"absent", TextLinkP} :
          /\ ~rootExists => top = {} /\ rootP = "absent"
          /\ DirA \notin top => aP = "absent" /\ aQ = "absent" /\ aTmp = "absent"
                                /\ aSP = "absent"
          /\ DirB \notin top => bP = "absent" /\ bQ = "absent"
          /\ dirs = {<<d>> : d \in top}
                    \cup (IF aSP = "absent" THEN {} ELSE {<<DirA, DirS>>})
          /\ files = Entry(<<PMd>>, 1, rootP)
                     @@ Entry(<<DirA, PMd>>, 2, aP)
                     @@ Entry(<<DirA, QMd>>, 3, aQ)
                     @@ Entry(<<DirA, QMd \o TmpSuffix>>, 4, aTmp)
                     @@ Entry(<<DirA, DirS, PMd>>, 5, aSP)
                     @@ Entry(<<DirB, PMd>>, 6, bP)
                     @@ Entry(<<DirB, QMd>>, 7, bQ)
    /\ Start

Spec == Init /\ [][Next]_vars

\* ------------------------------------------------------------------------
\* One subdirectory with one file of any text of up to MaxItems items, beside
\* any of the (empty) files q.md and !.md
\* ------------------------------------------------------------------------
LinkQ == <<"[", "q", "]", "(", "q", ".md", ")">>

LinkP == <<"[", "q", "]", "(", "P", ".md", ")">>

LinkExt == <<"[", "q", "]", "(", "://", "q", ".md", ")">>

PlainLink == <<"[", "q", "]", "(", "q", ")">>

TailBang == <<"]", "(", "!", ".md", ")">>

Items == {LinkQ, LinkP, LinkExt, PlainLink, BangLink, TailBang, <<"[">>, <<"\n">>}

Texts == {Concat(t) : t \in UNION {[1..n -> Items] : n \in 0..MaxItems}}

InitText ==
    /\ rootExists = TRUE
    /\ dirs = {<<DirA>>}
    /\ \E text \in Texts : \E local \in SUBSET {QMd, BangMd} :
          files = (<<DirA, ZMd>> :> [ino |-> 1, data |-> text])
                  @@ [x \in {<<DirA, f>> : f \in local} |->
                          [ino |-> 1 + Len(Sorted({g \in local : ~NameLess(x[2], g)})),
                           data |-> <<>>]]
    /\ Start

SpecText == InitText /\ [][Next]_vars

\* ------------------------------------------------------------------------
\* What the properties speak about
\* ------------------------------------------------------------------------
\* the .md files of the immediate subdirectories, as the current run found them
MdPaths == {p \in DOMAIN runStart : Len(p) = 2 /\ EndsWithMd(p[2])}

\* the names of the .md files directly in the subdirectory d
LocalSet(d) == {p[2] : p \in {x \in MdPaths : x[1] = d}}

Input(p) == runStart[p].data

Output(p) == files[p].data

SameFile(p) == p \in DOMAIN files /\ files[p] = runStart[p]

\* the count of the "Modified ... items" line of the file, 0 without one
Reported(p) ==
    LET hits == {i \in 1..Len(stdout) : stdout[i].msg = "Modified" /\ stdout[i].file = p}
    IN  IF hits = {} THEN 0 ELSE stdout[CHOOSE i \in hits : TRUE].items

\* A link [A](B.md) of a text: A and B hold no bracket, no parenthesis and no
\* line end, so the link neither nests nor overlaps another one.
Structural == {"[", "]", "(", ")", "\n"}

NextStructural(s, i) == Min({x \in i..Len(s) : s[x] \in Structural} \cup {Len(s) + 1})

IsLinkAt(s, i) ==
    /\ s[i] = "["
    /\ LET j == NextStructural(s, i + 1)
       IN  /\ j + 1 <= Len(s)
           /\ s[j] = "]"
           /\ s[j + 1] = "("
           /\ LET c == NextStructural(s, j + 2)
              IN  c <= Len(s) /\ s[c] = ")" /\ c - 1 >= j + 2 /\ s[c - 1] = ".md"

LinkStarts(s) == {i \in 1..Len(s) : IsLinkAt(s, i)}

LinkAt(s, i) ==
    LET j == NextStructural(s, i + 1)
        c == NextStructural(s, j + 2)
    IN  [label |-> SubSeq(s, i + 1, j - 1),
         stem |-> SubSeq(s, j + 2, c - 2),
         text |-> SubSeq(s, i, c),
         before |-> SubSeq(s, 1, i - 1),
         after |-> SubSeq(s, c + 1, Len(s))]

\* no ".md" in s
NoMd(s) == \A x \in 1..Len(s) : s[x] # ".md"

\* [A](https://www.wikidata.org/wiki/B), with Property: before a B that starts with P
WikidataLink(l) ==
    <<"[">> \o l.label \o <<"]", "(", "https", "://", "www.wikidata.org/wiki/">>
    \o (IF l.stem # <<>> /\ l.stem[1] = "P" THEN <<"Property:">> ELSE <<>>)
    \o l.stem \o <<")">>

\* ------------------------------------------------------------------------
\* C1 (as claimed): after a run, a link [A](B.md) with no '://' in B and B.md
\* not among the .md files of the subdirectory stands in the output as
\* [A](https://www.wikidata.org/wiki/B), or .../Property:B for a B that starts
\* with P, and the text before and after it is as it was, whatever that text
\* is; stated for a text whose only ".md" is the one of the link (the links to
\* !.md are left to C5).
\* ------------------------------------------------------------------------
C1_AbsentLinkRewrittenInPlace ==
    pc = "done" =>
        \A p \in MdPaths : \A i \in LinkStarts(Input(p)) :
            LET l == LinkAt(Input(p), i)
            IN  (/\ ~HasScheme(l.stem)
                 /\ (l.stem \o <<".md">>) \notin LocalSet(p[1])
                 /\ l.stem # <<"!">>
                 /\ NoMd(l.before)
                 /\ NoMd(l.after))
                => Output(p) = l.before \o WikidataLink(l) \o l.after

\* ------------------------------------------------------------------------
\* C2 (as claimed): after a run, every link [A](B.md) with B.md among the .md
\* files of the subdirectory is still in the output, whatever precedes it on
\* its line, and a file whose every ".md)" closes such a link is the file it
\* was, with the text it had (the links to !.md are left to C5).
\* ------------------------------------------------------------------------
IsLocalLink(l, d) == (l.stem \o <<".md">>) \in LocalSet(d) /\ l.stem # <<"!">>

OnlyLocalLinks(s, d) ==
    \A k \in 1..Len(s) :
        MdCloseAt(s, k) =>
            \E i \in LinkStarts(s) :
                /\ IsLocalLink(LinkAt(s, i), d)
                /\ i + Len(LinkAt(s, i).text) - 1 = k + 1

C2_LocalLinkUnchanged ==
    pc = "done" =>
        \A p \in MdPaths :
            /\ \A i \in LinkStarts(Input(p)) :
                   IsLocalLink(LinkAt(Input(p), i), p[1])
                   => Contains(Output(p), LinkAt(Input(p), i).text)
            /\ OnlyLocalLinks(Input(p), p[1]) => SameFile(p)

\* ------------------------------------------------------------------------
\* C3: after a run, every link [A](T.md) with '://' in T stands in the output
\* where it stood, between the rewritten text before it and the rewritten
\* text after it, also when T.md is no file of the subdirectory; and when the
\* text has no other ".md", nothing is counted and the file is not replaced.
\* ------------------------------------------------------------------------
C3_ExternalLinkKept ==
    pc = "done" =>
        \A p \in MdPaths : \A i \in LinkStarts(Input(p)) :
            LET l == LinkAt(Input(p), i)
                local == LocalSet(p[1])
            IN  HasScheme(l.stem) =>
                /\ Output(p) = ProcessText(l.before, local).text \o l.text
                               \o ProcessText(l.after, local).text
                /\ (NoMd(l.before) /\ NoMd(l.after))
                   => SameFile(p) /\ Reported(p) = 0

\* a run rewrote a file around an external link of it
C3_Witness ==
    /\ pc = "done"
    /\ \E p \in MdPaths :
          /\ Reported(p) > 0
          /\ \E i \in LinkStarts(Input(p)) : HasScheme(LinkAt(Input(p), i).stem)

\* ------------------------------------------------------------------------
\* C4 (as claimed): a run that follows a completed run changes nothing: the
\* files are the files the first run left, no file is reported as modified,
\* and every subdirectory reports 0 files changed and 0 items modified.
\* ------------------------------------------------------------------------
C4_SecondRunChangesNothing ==
    (pc = "done" /\ run > 1) =>
        /\ files = runStart
        /\ \A i \in 1..Len(stdout) :
               /\ stdout[i].msg # "Modified"
               /\ stdout[i].msg = "Summary"
                  => stdout[i].changed = 0 /\ stdout[i].modified = 0

\* ------------------------------------------------------------------------
\* C5 (as claimed): after a run no "(!.md)" is left in a processed file, a
\* file that had one has a change counted, and in a text with no other ".md"
\* the "(!.md)" has become "(https://www.wikidata.org/wiki/Q363948)" where it
\* stood.
\* ------------------------------------------------------------------------
BareBang == <<"(", "!", ".md", ")">>

SentinelLink == <<"(", "https", "://", "www.wikidata.org/wiki/", "Q363948", ")">>

C5_BareBangBecomesSentinel ==
    pc = "done" =>
        \A p \in MdPaths :
            /\ ~Contains(Output(p), BareBang)
            /\ Contains(Input(p), BareBang) => Reported(p) > 0
            /\ \A i \in 1..Len(Input(p)) :
                   LET before == SubSeq(Input(p), 1, i - 1)
                       after == SubSeq(Input(p), i + Len(BareBang), Len(Input(p)))
                   IN  (IsPrefixAt(Input(p), i, BareBang) /\ NoMd(before) /\ NoMd(after))
                       => Output(p) = before \o SentinelLink \o after

\* ------------------------------------------------------------------------
\* C6: a file is replaced exactly when its text changes.  In every state each
\* .md file of a subdirectory is the file it was (same inode) exactly when it
\* has the text it had; when the loop over the lines has ended, the change
\* counter is above 0 exactly when the text written differs from the text
\* read; and after a run a file is reported as modified exactly when its
\* text differs, and a file with no ".md)" in it is the file it was.
\* ------------------------------------------------------------------------
C6_ReplacedIffChanged ==
    /\ \A p \in MdPaths :
           /\ p \in DOMAIN files
           /\ files[p].ino # runStart[p].ino <=> files[p].data # runStart[p].data
    /\ pc = "finish" => (changes > 0 <=> files[TempPath].data # files[FilePath].data)
    /\ pc = "done" =>
           \A p \in MdPaths :
               /\ Reported(p) > 0 <=> Output(p) # Input(p)
               /\ ~Contains(Input(p), <<".md", ")">>) => SameFile(p)

\* a run replaced a file with a link in it and left a file without one alone
C6_Witness ==
    /\ pc = "done"
    /\ \E p \in MdPaths : files[p].ino # runStart[p].ino /\ Reported(p) > 0
    /\ \E p \in MdPaths : SameFile(p)

\* ------------------------------------------------------------------------
\* C7: each immediate subdirectory is a namespace of its own.  After a run
\* the text of every .md file of a subdirectory is the rewriting of its text
\* with the .md names directly in that subdirectory, so a link to P.md is
\* rewritten when P.md exists only in docs/, in a sibling or in a nested
\* directory; and in every state a file directly in docs/ or in a nested
\* directory has not been opened and is the file it was.
\* ------------------------------------------------------------------------
C7_SubdirectoryIsNamespace ==
    /\ pc = "done" =>
           \A p \in MdPaths :
               /\ Output(p) = ProcessText(Input(p), LocalSet(p[1])).text
               /\ (Input(p) = TextLinkP /\ PMd \notin LocalSet(p[1]))
                  => Output(p) = <<"[", "q", "]", "(", "https", "://",
                                   "www.wikidata.org/wiki/", "Property:", "P", ")">>
    /\ \A p \in DOMAIN orig :
           Len(p) # 2 => p \notin opened /\ p \in DOMAIN files /\ files[p] = orig[p]

\* a run rewrote the link to P.md in a/q.md while P.md exists in docs/, in
\* the sibling b and in the nested a/s, and left those three files alone
C7_Witness ==
    /\ pc = "done"
    /\ run = 1
    /\ {<<PMd>>, <<DirB, PMd>>, <<DirA, DirS, PMd>>, <<DirA, QMd>>} \subseteq DOMAIN orig
    /\ <<DirA, PMd>> \notin DOMAIN orig
    /\ orig[<<DirA, QMd>>].data = TextLinkP
    /\ files[<<DirA, QMd>>].data # TextLinkP
    /\ files[<<PMd>>] = orig[<<PMd>>]
    /\ files[<<DirA, DirS, PMd>>] = orig[<<DirA, DirS, PMd>>]

\* ------------------------------------------------------------------------
\* C8 (as claimed): a run on a missing docs, or on a docs without
\* subdirectories, ends normally: once main has listed docs the run is done
\* without an exception, the "No subdirectories found" line is printed, no
\* file was opened and every file is the file it was.
\* ------------------------------------------------------------------------
C8_NoSubdirectoriesEndsGracefully ==
    ({d \in dirs : Len(d) = 1} = {} /\ pc # "main") =>
        /\ pc = "done"
        /\ err = "none"
        /\ \E i \in 1..Len(stdout) : stdout[i].msg = "No subdirectories found in 'docs/'."
        /\ opened = {}
        /\ files = orig

\* ------------------------------------------------------------------------
\* C9: in every state, also the one an I/O error leaves, each .md file has
\* the whole text it had when the run started or the whole rewritten text.
\* When an error has ended the run, the file being processed is the file it
\* was, the files before it in sorted order (and those of the subdirectories
\* before) have the rewritten text, and the files after it (and those of the
\* subdirectories after) are the files they were.
\* ------------------------------------------------------------------------
Rewriting(p) == ProcessText(Input(p), LocalSet(p[1])).text

C9_WholeTextOnDisk ==
    /\ \A p \in DOMAIN runStart :
           EndsWithMd(p[Len(p)]) =>
               /\ p \in DOMAIN files
               /\ IF Len(p) = 2
                  THEN files[p].data \in {Input(p), Rewriting(p)}
                  ELSE files[p] = runStart[p]
    /\ (pc = "crashed" /\ subdirs # <<>>) =>
           \A p \in MdPaths :
               LET here == Head(subdirs)[1]
               IN  IF p[1] = here
                   THEN /\ p[2] = filename => files[p] = runStart[p]
                        /\ NameLess(p[2], filename) => files[p].data = Rewriting(p)
                        /\ NameLess(filename, p[2]) => files[p] = runStart[p]
                   ELSE /\ NameLess(p[1], here) => files[p].data = Rewriting(p)
                        /\ NameLess(here, p[1]) => files[p] = runStart[p]

\* an error ended the run in a file that the run would have rewritten, after
\* it wrote part of the temporary file and after it replaced an earlier file
C9_Witness ==
    /\ pc = "crashed"
    /\ subdirs # <<>>
    /\ FilePath \in MdPaths
    /\ Rewriting(FilePath) # Input(FilePath)
    /\ files[FilePath] = runStart[FilePath]
    /\ TempPath \in DOMAIN files
    /\ files[TempPath].data # <<>>
    /\ files[TempPath].data # Rewriting(FilePath)
    /\ \E p \in MdPaths : files[p].data # Input(p)

\* ------------------------------------------------------------------------
\* C10 (as claimed): after a run that completes, every subdirectory holds
\* the names it held, and every file whose name does not end in ".md", also
\* one named <name>.md.tmp, is the file it was.
\* ------------------------------------------------------------------------
C10_OtherFilesKept ==
    pc = "done" =>
        /\ DOMAIN files = DOMAIN runStart
        /\ \A p \in DOMAIN runStart :
               ~EndsWithMd(p[Len(p)]) => files[p] = runStart[p]

====
